---- MODULE Spec2Model ----
(***************************************************************************)
(* A model of the ledger node of src/: Transaction (transaction.py), Block *)
(* (block.py), Portfolio (portfolio.py), Blockchain (blockchain.py) and    *)
(* the handlers and background loops of BlockchainNode                     *)
(* (blockchain_node.py).                                                   *)
(*                                                                         *)
(* SHA-256 is modelled as an injective function: a digest is the tuple of  *)
(* the values that were hashed, tagged "h".  The number of leading zero    *)
(* symbols of a block digest is a fixed function of the hashed values      *)
(* (LeadingZeros).                                                         *)
(***************************************************************************)
EXTENDS Integers, Sequences, FiniteSets, TLC

\* ------------------------------------------------------------------ bounds
MaxChain == 3
MaxPending == 2
MaxClock == 1
MaxIds == 5
\* the transactions made in a run of the node on its own and of the
\* interleaved node
MaxDrawn == 4
ZeroCycle == 3
\* interleaved threads start an append only on a chain shorter than this
MaxRacing == 2
\* the longest chain a node of the network mines
MaxNetChain == 4

\* ------------------------------------------------------- program constants
InitDifficulty == 4
InitReward == 50

Genesis == "genesis"
Users == {"A", "B"}
Miners == {"A", "M"}
Address == {Genesis} \cup Users \cup Miners
Amounts == {0, 10, 50}
Fees == {0, 1}

\* ------------------------------------------------------------------ digests
None == <<>>
ZeroHash == <<"0">>
BadHash == <<"bad">>

VARIABLES
    chain,                  \* Blockchain.chain
    chain_form,             \* "object": Block entities; "dict": wire dictionaries
    pending_transactions,   \* Blockchain.pending_transactions
    nodes,                  \* Blockchain.nodes
    difficulty,             \* Blockchain.difficulty
    mining_reward,          \* Blockchain.mining_reward
    clock,                  \* time.time()
    next_id,                \* the next uuid4 a Transaction() draws
    last,                   \* the last operation that returned, and its result
    auto_mining,            \* BlockchainNode.auto_mining
    mining_thread,          \* BlockchainNode.mining_thread
    pc,                     \* where each thread stands
    loc,                    \* each thread's local variables
    network                 \* the chain of each node of a network of nodes

vars == <<chain, chain_form, pending_transactions, nodes, difficulty,
          mining_reward, clock, next_id, last, auto_mining, mining_thread,
          pc, loc, network>>

ledger == <<chain, chain_form, pending_transactions>>
settings == <<nodes, difficulty, mining_reward>>
threads == <<auto_mining, mining_thread, pc, loc>>

\* --------------------------------------------------------------- Transaction
\* Transaction.__init__
Transaction(id, sender, recipient, amount, fee, ts) ==
    [id |-> id, sender |-> sender, recipient |-> recipient, amount |-> amount,
     fee |-> fee, timestamp |-> ts, signature |-> None]

\* Transaction.sign_transaction: sha256 of sender, recipient, amount, timestamp
sign_transaction(tx) ==
    [tx EXCEPT !.signature = <<"h", tx.sender, tx.recipient, tx.amount, tx.timestamp>>]

\* --------------------------------------------------------------------- Block
\* a level of the reduction that hashes each pair without regard to which of
\* the two comes first
RECURSIVE PairUpUnordered(_)
PairUpUnordered(hs) ==
    IF Len(hs) = 0 THEN <<>>
    ELSE <<<<"h", {hs[1], hs[2]}>>>> \o PairUpUnordered(SubSeq(hs, 3, Len(hs)))

\* one level of the Merkle reduction: pair adjacent hashes left to right
RECURSIVE PairUp(_)
PairUp(hs) ==
    IF Len(hs) = 0 THEN <<>>
    ELSE <<<<"h", hs[1], hs[2]>>>> \o PairUp(SubSeq(hs, 3, Len(hs)))

RECURSIVE MerkleReduce(_)
MerkleReduce(hs) ==
    IF Len(hs) = 1 THEN hs[1]
    ELSE LET even == IF Len(hs) % 2 # 0 THEN Append(hs, hs[Len(hs)]) ELSE hs
         IN MerkleReduce(PairUp(even))

\* Block.calculate_merkle_root
calculate_merkle_root(transactions) ==
    IF Len(transactions) = 0 THEN ZeroHash
    ELSE MerkleReduce([i \in 1..Len(transactions) |-> <<"h", transactions[i]>>])

\* Block.calculate_hash: sha256 of index, timestamp, previous_hash, merkle_root, nonce
calculate_hash(b) ==
    <<"h", b.index, b.timestamp, b.previous_hash, b.merkle_root, b.nonce>>


\* a block that is built without its Merkle root
BlockWithoutRoot(index, transactions, previous_hash, miner_address, ts) ==
    [index |-> index, timestamp |-> ts, transactions |-> transactions,
     previous_hash |-> previous_hash, miner_address |-> miner_address,
     nonce |-> 0, hash |-> None, merkle_root |-> ZeroHash]

\* Block.__init__
Block(index, transactions, previous_hash, miner_address, ts) ==
    [index |-> index, timestamp |-> ts, transactions |-> transactions,
     previous_hash |-> previous_hash, miner_address |-> miner_address,
     nonce |-> 0, hash |-> None,
     merkle_root |-> calculate_merkle_root(transactions)]

\* the number of leading "0" symbols of a digest's hexadecimal form
LeadingZeros(h) ==
    IF Len(h) = 6 THEN 2 * ((h[2] + h[3] + h[6]) % ZeroCycle) ELSE 0

\* hash.startswith("0" * difficulty)
StartsWithTarget(h, d) == d = 0 \/ LeadingZeros(h) >= d

\* a search that stores the digest taken before the nonce was incremented
RECURSIVE mine_block_stale(_, _)
mine_block_stale(b, d) ==
    IF b.hash = None \/ ~StartsWithTarget(b.hash, d)
    THEN mine_block_stale([b EXCEPT !.nonce = @ + 1, !.hash = calculate_hash(b)], d)
    ELSE b

\* Block.mine_block
RECURSIVE mine_block(_, _)
mine_block(b, d) ==
    IF b.hash = None \/ ~StartsWithTarget(b.hash, d)
    THEN LET n == [b EXCEPT !.nonce = @ + 1]
         IN mine_block([n EXCEPT !.hash = calculate_hash(n)], d)
    ELSE b

\* ----------------------------------------------------------------- Portfolio
\* a ledger in which a transfer never reaches its recipient
RECURSIVE TxDeltaRecipientForgotten(_, _)
TxDeltaRecipientForgotten(txs, address) ==
    IF Len(txs) = 0 THEN 0
    ELSE LET t == txs[1]
         IN (IF t.sender = address THEN 0 - (t.amount + t.fee) ELSE 0)
            + TxDeltaRecipientForgotten(Tail(txs), address)

\* a ledger in which the recipient is paid the fee too
RECURSIVE TxDeltaFeeToRecipient(_, _)
TxDeltaFeeToRecipient(txs, address) ==
    IF Len(txs) = 0 THEN 0
    ELSE LET t == txs[1]
         IN (IF t.sender = address THEN 0 - (t.amount + t.fee) ELSE 0)
            + (IF t.recipient = address THEN t.amount + t.fee ELSE 0)
            + TxDeltaFeeToRecipient(Tail(txs), address)

\* the net effect of a block's transactions on an address: the sender pays
\* amount + fee, the recipient receives amount
RECURSIVE TxDelta(_, _)
TxDelta(txs, address) ==
    IF Len(txs) = 0 THEN 0
    ELSE LET t == txs[1]
         IN (IF t.sender = address THEN 0 - (t.amount + t.fee) ELSE 0)
            + (IF t.recipient = address THEN t.amount ELSE 0)
            + TxDelta(Tail(txs), address)

\* Portfolio.get_balance
RECURSIVE get_balance(_, _, _)
get_balance(ch, reward, address) ==
    IF Len(ch) = 0 THEN 0
    ELSE TxDelta(ch[1].transactions, address)
         + (IF ch[1].miner_address = address THEN reward ELSE 0)
         + get_balance(Tail(ch), reward, address)

\* ---------------------------------------------------------------- Blockchain
\* Blockchain.create_genesis_block
create_genesis_block(ts) ==
    LET g == Block(0, <<>>, ZeroHash, Genesis, ts)
    IN [g EXCEPT !.hash = calculate_hash(g)]

\* Blockchain.get_latest_block
get_latest_block == chain[Len(chain)]

\* a validation that never looks at the sender's balance
validate_transaction_no_balance(tx) ==
    IF tx.sender = tx.recipient THEN FALSE
    ELSE IF tx.amount <= 0 THEN FALSE
    ELSE TRUE

\* Blockchain.validate_transaction
validate_transaction(tx) ==
    IF tx.sender = tx.recipient THEN FALSE
    ELSE IF tx.amount <= 0 THEN FALSE
    ELSE IF tx.sender # Genesis
            /\ get_balance(chain, mining_reward, tx.sender) < tx.amount + tx.fee
         THEN FALSE
    ELSE TRUE

\* a validation that never recomputes a digest
validate_links_only(ch) ==
    \A i \in 2..Len(ch) : ch[i].previous_hash = ch[i - 1].hash

\* Blockchain.validate_imported_chain / Blockchain.validate_chain: the pairwise
\* check of blocks 1..N-1 (positions 2..N of the sequence)
validate_imported_chain(ch) ==
    \A i \in 2..Len(ch) :
        /\ ch[i].hash = calculate_hash(ch[i])
        /\ ch[i].previous_hash = ch[i - 1].hash

\* Blockchain.validate_chain: the same loop over the node's own chain
validate_chain == validate_imported_chain(chain)

\* Transaction.to_dict
tx_to_dict(tx) ==
    [id |-> tx.id, sender |-> tx.sender, recipient |-> tx.recipient,
     amount |-> tx.amount, fee |-> tx.fee, timestamp |-> tx.timestamp,
     signature |-> tx.signature]

\* Block.to_dict
block_to_dict(b) ==
    [index |-> b.index, timestamp |-> b.timestamp,
     transactions |-> [i \in 1..Len(b.transactions) |-> tx_to_dict(b.transactions[i])],
     previous_hash |-> b.previous_hash, miner_address |-> b.miner_address,
     nonce |-> b.nonce, hash |-> b.hash, merkle_root |-> b.merkle_root]

\* dict_chain_to_objects, one transaction: a new Transaction, which draws its
\* own id and timestamp, then id, timestamp and signature overwritten with
\* the dictionary's values
tx_from_dict(d) ==
    [Transaction(next_id, d.sender, d.recipient, d.amount, d.fee, clock)
        EXCEPT !.id = d.id, !.timestamp = d.timestamp, !.signature = d.signature]

\* a rebuilt block that keeps the nonce its constructor gave it
block_from_dict_unmined(d) ==
    LET txs == [i \in 1..Len(d.transactions) |-> tx_from_dict(d.transactions[i])]
        b == Block(d.index, txs, d.previous_hash, d.miner_address, clock)
    IN [b EXCEPT !.timestamp = d.timestamp, !.hash = d.hash,
                 !.merkle_root = d.merkle_root]

\* dict_chain_to_objects, one block: a new Block of the rebuilt transactions,
\* which takes its own timestamp and computes its own merkle_root, then
\* timestamp, nonce, hash and merkle_root overwritten with the dictionary's
\* values
block_from_dict(d) ==
    LET txs == [i \in 1..Len(d.transactions) |-> tx_from_dict(d.transactions[i])]
        b == Block(d.index, txs, d.previous_hash, d.miner_address, clock)
    IN [b EXCEPT !.timestamp = d.timestamp, !.nonce = d.nonce, !.hash = d.hash,
                 !.merkle_root = d.merkle_root]

\* a conversion that loses the last block
dict_chain_without_tip(dict_chain) ==
    [i \in 1..(Len(dict_chain) - 1) |-> block_from_dict(dict_chain[i])]

\* Blockchain.dict_chain_to_objects
dict_chain_to_objects(dict_chain) ==
    [i \in 1..Len(dict_chain) |-> block_from_dict(dict_chain[i])]

\* the chain as GET /chain and the saved state give it: every block's to_dict
ToWire(ch) == [i \in 1..Len(ch) |-> block_to_dict(ch[i])]

\* ------------------------------------------------------------ wire inputs
\* what a request or a peer may send: blocks mined elsewhere, as they are or
\* with one field changed, the digest recomputed after the change or not
RemoteId(index, miner) == 100 + 10 * index + (IF miner = "A" THEN 1 ELSE 2)

\* the reward transaction of a block mined by a peer
RemoteReward(index, miner, reward, ts) ==
    sign_transaction(Transaction(RemoteId(index, miner), Genesis, miner, reward, 0, ts))

Tamper(b, field) ==
    CASE field = "none" -> b
      [] field = "hash" -> [b EXCEPT !.hash = BadHash]
      [] field = "nonce" -> [b EXCEPT !.nonce = @ + 1]
      [] field = "prev" -> [b EXCEPT !.previous_hash = BadHash]
      [] field = "index" -> [b EXCEPT !.index = @ + 1]
      [] field = "merkle" -> [b EXCEPT !.merkle_root = BadHash]
      [] field = "miner" -> [b EXCEPT !.miner_address = "B"]

Rehash(b, rehash) == IF rehash THEN [b EXCEPT !.hash = calculate_hash(b)] ELSE b

\* a block mined by a peer on top of the block with digest prev
PeerBlock(index, txs, prev, miner, ts, d) ==
    block_to_dict(mine_block(Block(index, txs, prev, miner, ts), d))

\* n blocks mined by a peer on top of base
RECURSIVE Extend(_, _, _, _, _, _)
Extend(base, n, miner, reward, ts, d) ==
    IF n = 0 THEN base
    ELSE Extend(Append(base,
                       PeerBlock(Len(base), <<RemoteReward(Len(base), miner, reward, ts)>>,
                                 base[Len(base)].hash, miner, ts, d)),
                n - 1, miner, reward, ts, d)

TamperAt(ch, pos, field, rehash) ==
    [ch EXCEPT ![pos] = Rehash(Tamper(@, field), rehash)]

\* the changes applied to a block before it is sent: the field changed, and
\* whether the digest is recomputed after the change
Variants ==
    {<<"none", FALSE>>, <<"hash", FALSE>>, <<"nonce", TRUE>>, <<"prev", TRUE>>,
     <<"index", TRUE>>, <<"merkle", TRUE>>, <<"miner", FALSE>>}

\* the changes applied to the last block of a chain before it is sent
ChainVariants ==
    {<<"hash", FALSE>>, <<"prev", TRUE>>, <<"index", TRUE>>}

\* the transaction lists a peer's block may carry: its reward alone, or the
\* oldest transaction of the local pool (broadcast earlier) and its reward
WireTxLists(index, miner) ==
    LET r == RemoteReward(index, miner, mining_reward, clock)
    IN {<<r>>}
       \cup {SubSeq(pending_transactions, 1, k) \o <<r>> :
                k \in 1..(IF Len(pending_transactions) > 0 THEN 1 ELSE 0)}

\* the blocks a peer may broadcast to this node: a successor of the tip as
\* the peer mined it or changed, or the tip itself once more
WireBlocks ==
    {Rehash(Tamper(PeerBlock(Len(chain), txs, get_latest_block.hash, "M", clock,
                             difficulty), v[1]), v[2]) :
        txs \in WireTxLists(Len(chain), "M"), v \in Variants}
    \cup {block_to_dict(chain[Len(chain)])}

\* the addresses a registration request may carry
PeerAddresses ==
    {[scheme |-> "http", rest |-> "p1"], [scheme |-> "", rest |-> "p2"]}

\* the chains a request may offer: the chain or the chain without its tip,
\* with up to two blocks mined on top by a peer, and the chain with one more
\* block that was changed after it was mined
WireChains ==
    LET bases == {chain} \cup {SubSeq(chain, 1, k) : k \in {Len(chain) - 1} \cap 1..MaxChain}
        exts == {Extend([i \in 1..Len(b) |-> block_to_dict(b[i])], n, "M", mining_reward,
                        clock, difficulty) :
                    b \in bases, n \in 0..2}
        ok == {c \in exts : Len(c) <= MaxChain}
    IN ok \cup {TamperAt(c, Len(c), v[1], v[2]) :
                    c \in {x \in ok : Len(x) = Len(chain) + 1 /\ x[Len(chain)] = chain[Len(chain)]},
                    v \in ChainVariants}

\* the chains a peer may answer with
PeerChains ==
    {c \in WireChains :
        \/ validate_imported_chain(c) /\ \A i \in 1..Len(c) : c[i].index = i - 1
        \/ c[Len(c)].hash = BadHash}

\* a request handler, the threads that run the mining loop and the sync loop
LoopThreads == {"loop1"}
\* the threads start_auto_mining can create in one run: a second one is
\* created when auto-mining is switched on after mining_thread was forgotten
Loops == LoopThreads \cup {"loop2"}
Threads == {"handler", "sync"} \cup Loops

NoLocals == [miner |-> "", txs |-> <<>>, index |-> 0, block |-> <<>>, chain |-> <<>>]

\* the nodes of a network in which every node has every other node as peer
NetNodes == {"n1", "n2"}

\* time.time() when a node of the network builds its genesis block
GenesisTime(n) == IF n = "n1" THEN 0 ELSE 1

\* Blockchain.__init__ and BlockchainNode.__init__ with no saved state: the
\* node as it is constructed
Constructed ==
    /\ chain = <<create_genesis_block(0)>>
    /\ chain_form = "object"
    /\ pending_transactions = <<>>
    /\ nodes = {}
    /\ difficulty = InitDifficulty
    /\ mining_reward = InitReward
    /\ clock = 0
    /\ next_id = 1
    /\ auto_mining = FALSE
    /\ mining_thread = "none"
    /\ pc = [t \in Threads |-> IF t \in Loops THEN "off" ELSE "idle"]
    /\ loc = [t \in Threads |-> NoLocals]
    /\ network = [n \in NetNodes |-> <<create_genesis_block(GenesisTime(n))>>]

Init ==
    /\ Constructed
    /\ last = [op |-> "init", result |-> "ok", ret |-> <<>>]

Returned(op, result, ret) == [op |-> op, result |-> result, ret |-> ret]

\* time passes
Tick ==
    /\ clock < MaxClock
    /\ clock' = clock + 1
    /\ UNCHANGED <<ledger, settings, next_id, last, threads, network>>

\* get_balance reads block.transactions: an AttributeError on a chain of
\* dictionaries
BalanceRaises(tx) ==
    /\ chain_form = "dict"
    /\ tx.sender # tx.recipient
    /\ tx.amount > 0
    /\ tx.sender # Genesis

\* an add_transaction that signs before it validates
add_transaction_sign_first(tx) ==
    IF validate_transaction(tx)
    THEN [accepted |-> TRUE, tx |-> sign_transaction(tx),
          pool |-> Append(pending_transactions, sign_transaction(tx))]
    ELSE [accepted |-> FALSE, tx |-> sign_transaction(tx), pool |-> pending_transactions]

\* Blockchain.add_transaction: whether it accepts, the transaction object
\* and the pool when it returns
add_transaction(tx) ==
    IF validate_transaction(tx)
    THEN [accepted |-> TRUE, tx |-> sign_transaction(tx),
          pool |-> Append(pending_transactions, sign_transaction(tx))]
    ELSE [accepted |-> FALSE, tx |-> tx, pool |-> pending_transactions]

\* the orders in which a set may be iterated
Orders(S) ==
    {o \in [1..Cardinality(S) -> S] : \A i, j \in 1..Cardinality(S) : o[i] = o[j] => i = j}

\* requests.post to a peer, as the broadcast loops see it: 200, another
\* status, or a RequestException (no answer in time, no connection, no valid
\* URL for the peer with the empty netloc)
PostResults == {"ok", "refused", "timeout", "connection_error"}

PostTo(outcome, node) == IF node = "" THEN "invalid_url" ELSE outcome[node]

\* a broadcast loop that gives up at the first peer it cannot reach
RECURSIVE PostToPeersUntilFailure(_, _)
PostToPeersUntilFailure(order, outcome) ==
    IF Len(order) = 0 THEN <<>>
    ELSE IF PostTo(outcome, order[1]) \in {"ok", "refused"}
    THEN <<[node |-> order[1], result |-> PostTo(outcome, order[1])]>>
         \o PostToPeersUntilFailure(Tail(order), outcome)
    ELSE <<[node |-> order[1], result |-> PostTo(outcome, order[1])]>>

\* the loop of broadcast_transaction and of broadcast_block: one post per
\* peer, a RequestException caught inside the iteration; the posts made, in
\* order, each with what came of it
RECURSIVE PostToPeers(_, _)
PostToPeers(order, outcome) ==
    IF Len(order) = 0 THEN <<>>
    ELSE <<[node |-> order[1], result |-> PostTo(outcome, order[1])]>>
         \o PostToPeers(Tail(order), outcome)

\* BlockchainNode.broadcast_transaction
broadcast_transaction(order, outcome) == PostToPeers(order, outcome)

\* BlockchainNode.broadcast_block
broadcast_block(order, outcome) == PostToPeers(order, outcome)

\* POST /transactions/new; sent is what is recorded of the broadcast that
\* follows an accepted transaction
NewTransactionHandler(sender, recipient, amount, fee, sent) ==
    LET tx == Transaction(next_id, sender, recipient, amount, fee, clock)
    IN /\ next_id <= MaxIds
       /\ Len(pending_transactions) < MaxPending
       /\ IF BalanceRaises(tx)
          THEN /\ last' = Returned("add_transaction", "error", <<tx>>)
               /\ UNCHANGED <<ledger, next_id>>
          ELSE LET r == add_transaction(tx)
               IN /\ pending_transactions' = r.pool
                  /\ next_id' = IF r.accepted THEN next_id + 1 ELSE next_id
                  /\ last' = Returned("add_transaction",
                                      IF r.accepted THEN "accepted" ELSE "rejected",
                                      IF r.accepted THEN <<r.tx>> \o sent ELSE <<r.tx>>)
                  /\ UNCHANGED <<chain, chain_form>>
       /\ UNCHANGED <<settings, clock, network, threads>>

\* POST /transactions/new, the broadcast not recorded
NewTransaction(sender, recipient, amount, fee) ==
    NewTransactionHandler(sender, recipient, amount, fee, <<>>)

\* POST /transactions/new with its broadcast: the peers in the order the set
\* is iterated, each post ending as outcome says
NewTransactionBroadcast(sender, recipient, amount, fee) ==
    \E order \in Orders(nodes) : \E outcome \in [nodes \ {""} -> PostResults] :
        NewTransactionHandler(sender, recipient, amount, fee,
                              <<broadcast_transaction(order, outcome)>>)

\* Blockchain.mine_pending_transactions: the reward transaction
RewardTransaction(miner) ==
    sign_transaction(Transaction(next_id, Genesis, miner, mining_reward, 0, clock))

\* Blockchain.mine_pending_transactions: the block built from the
\* transactions to mine, a chain length and a tip digest, and mined
NewBlock(txs, length, tip_hash, miner) ==
    mine_block(Block(length, txs, tip_hash, miner, clock), difficulty)

\* a mine_pending that puts the reward transaction before the pool
mine_pending_reward_first(miner) ==
    NewBlock(<<RewardTransaction(miner)>> \o pending_transactions, Len(chain),
             get_latest_block.hash, miner)

\* Blockchain.mine_pending_transactions, run without interference: the block
\* it returns
mine_pending_transactions(miner) ==
    NewBlock(pending_transactions \o <<RewardTransaction(miner)>>, Len(chain),
             get_latest_block.hash, miner)

\* POST /mine; sent is what is recorded of the broadcast that follows the
\* mined block
MineHandler(miner, sent) ==
    /\ next_id <= MaxIds
    /\ Len(chain) < MaxChain
    /\ IF Len(pending_transactions) = 0
       THEN /\ last' = Returned("mine", "rejected", <<>>)
            /\ UNCHANGED <<ledger, next_id>>
       ELSE IF chain_form = "dict"
       THEN /\ last' = Returned("mine", "error", <<>>)
            /\ UNCHANGED <<ledger, next_id>>
       ELSE LET block == mine_pending_transactions(miner)
            IN /\ chain' = Append(chain, block)
               /\ pending_transactions' = <<>>
               /\ next_id' = next_id + 1
               /\ last' = Returned("mine", "ok", <<block>> \o sent)
               /\ UNCHANGED chain_form
    /\ UNCHANGED <<settings, clock, network, threads>>

\* POST /mine, the broadcast not recorded
Mine(miner) == MineHandler(miner, <<>>)

\* POST /mine with its broadcast
MineBroadcast(miner) ==
    \E order \in Orders(nodes) : \E outcome \in [nodes \ {""} -> PostResults] :
        MineHandler(miner, <<broadcast_block(order, outcome)>>)

\* the pool after a block's transactions are removed from it by id
RECURSIVE RemoveMined(_, _)
RemoveMined(pool, txs) ==
    IF Len(txs) = 0 THEN pool
    ELSE RemoveMined(SelectSeq(pool, LAMBDA p : p.id # txs[1].id), Tail(txs))

\* POST /broadcast/block: the validity test of the received block
ValidSuccessor(block) ==
    /\ block.hash = calculate_hash(block)
    /\ block.previous_hash = get_latest_block.hash
    /\ block.index = Len(chain)

\* a receive_block that looks at the digest alone: no test for a block of
\* the same index, none of previous_hash, none of the index
ReceiveBlockDigestOnly(data) ==
    /\ Len(chain) < MaxChain
    /\ IF chain_form = "dict"
       THEN /\ last' = Returned("receive_block", "error", <<>>)
            /\ UNCHANGED ledger
       ELSE LET block == block_from_dict(data)
            IN IF block.hash = calculate_hash(block)
               THEN /\ chain' = Append(chain, block)
                    /\ pending_transactions' =
                           RemoveMined(pending_transactions, block.transactions)
                    /\ last' = Returned("receive_block", "accepted", <<block>>)
                    /\ UNCHANGED chain_form
               ELSE /\ last' = Returned("receive_block", "rejected", <<>>)
                    /\ UNCHANGED ledger
    /\ UNCHANGED <<settings, clock, network, next_id, threads>>

\* a receive_block that removes the block's transactions from the pool
\* before it tests the block
ReceiveBlockFilterFirst(data) ==
    /\ Len(chain) < MaxChain
    /\ IF chain_form = "dict"
       THEN /\ last' = Returned("receive_block", "error", <<>>)
            /\ UNCHANGED ledger
       ELSE IF \E i \in 1..Len(chain) : chain[i].index = data.index
       THEN /\ last' = Returned("receive_block", "exists", <<>>)
            /\ UNCHANGED ledger
       ELSE LET block == block_from_dict(data)
            IN /\ pending_transactions' =
                      RemoveMined(pending_transactions, block.transactions)
               /\ IF ValidSuccessor(block)
                  THEN /\ chain' = Append(chain, block)
                       /\ last' = Returned("receive_block", "accepted", <<block>>)
                       /\ UNCHANGED chain_form
                  ELSE /\ last' = Returned("receive_block", "rejected", <<>>)
                       /\ UNCHANGED <<chain, chain_form>>
    /\ UNCHANGED <<settings, clock, network, next_id, threads>>

\* POST /broadcast/block
ReceiveBlock(data) ==
    /\ Len(chain) < MaxChain
    /\ IF chain_form = "dict"
       THEN /\ last' = Returned("receive_block", "error", <<>>)
            /\ UNCHANGED ledger
       ELSE IF \E i \in 1..Len(chain) : chain[i].index = data.index
       THEN /\ last' = Returned("receive_block", "exists", <<>>)
            /\ UNCHANGED ledger
       ELSE LET block == block_from_dict(data)
            IN IF ValidSuccessor(block)
               THEN /\ chain' = Append(chain, block)
                    /\ pending_transactions' =
                           RemoveMined(pending_transactions, block.transactions)
                    /\ last' = Returned("receive_block", "accepted", <<block>>)
                    /\ UNCHANGED chain_form
               ELSE /\ last' = Returned("receive_block", "rejected", <<>>)
                    /\ UNCHANGED ledger
    /\ UNCHANGED <<settings, clock, network, next_id, threads>>

\* a replace_chain that takes a candidate as long as the chain
replace_chain_not_shorter(new_chain) ==
    Len(new_chain) >= Len(chain) /\ validate_imported_chain(new_chain)

\* Blockchain.replace_chain: the test that decides replacement
replace_chain(new_chain) ==
    Len(new_chain) > Len(chain) /\ validate_imported_chain(new_chain)

\* POST /sync: Blockchain.replace_chain with the chain of the request, which
\* is stored as it was given, a list of dictionaries
SyncChain(new_chain) ==
    /\ IF replace_chain(new_chain)
       THEN /\ chain' = new_chain
            /\ chain_form' = "dict"
            /\ last' = Returned("replace_chain", "replaced", <<>>)
            /\ UNCHANGED pending_transactions
       ELSE /\ last' = Returned("replace_chain", "not_replaced", <<>>)
            /\ UNCHANGED ledger
    /\ UNCHANGED <<settings, clock, network, next_id, threads>>

\* urlparse(address).netloc: the authority that follows "scheme://"; an
\* address without "//" has an empty netloc
Netloc(address) == IF address.scheme # "" THEN address.rest ELSE ""

\* Blockchain.register_node
register_node(address) == nodes \cup {Netloc(address)}

\* POST /nodes/register, one address
RegisterNode(address) ==
    /\ nodes' = register_node(address)
    /\ last' = Returned("register_node", "ok", <<>>)
    /\ UNCHANGED <<ledger, difficulty, mining_reward, clock, network, next_id, threads>>

Unreachable == [kind |-> "unreachable", chain |-> <<>>]

\* a response that is JSON but has no "chain" entry: data['chain'] raises
\* KeyError, which is no RequestException
Malformed == [kind |-> "malformed", chain |-> <<>>]

\* requests.get to a peer: the peer with the empty netloc has no valid URL
\* and every request to it fails
Answer(resp, node) == IF node = "" THEN Unreachable ELSE resp[node]

\* a loop over the peers that adopts nothing
ScanPeersDeaf(order, resp, max_length, new_chain) ==
    [raised |-> FALSE, chain |-> new_chain]

\* a loop over the peers that takes every longer valid chain it meets, the
\* last one winning, without raising the length to beat
RECURSIVE ScanPeersLastWins(_, _, _, _)
ScanPeersLastWins(order, resp, max_length, new_chain) ==
    IF Len(order) = 0 THEN [raised |-> FALSE, chain |-> new_chain]
    ELSE LET r == IF order[1] = "" THEN [kind |-> "unreachable", chain |-> <<>>]
                  ELSE resp[order[1]]
         IN IF r.kind = "malformed" THEN [raised |-> TRUE, chain |-> <<>>]
            ELSE IF r.kind = "chain" /\ Len(r.chain) > max_length
                    /\ validate_imported_chain(r.chain)
            THEN ScanPeersLastWins(Tail(order), resp, max_length, r.chain)
            ELSE ScanPeersLastWins(Tail(order), resp, max_length, new_chain)

\* BlockchainNode.resolve_conflicts: the loop over the peers.  resp[node] is
\* what GET /chain of node yields: a chain, a failed request, or a body
\* without the expected entries.  The result says whether the loop raised
\* and the chain to install, empty when there is none
RECURSIVE ScanPeers(_, _, _, _)
ScanPeers(order, resp, max_length, new_chain) ==
    IF Len(order) = 0 THEN [raised |-> FALSE, chain |-> new_chain]
    ELSE LET r == Answer(resp, order[1])
         IN IF r.kind = "malformed" THEN [raised |-> TRUE, chain |-> <<>>]
            ELSE IF r.kind = "chain" /\ Len(r.chain) > max_length
                    /\ validate_imported_chain(r.chain)
            THEN ScanPeers(Tail(order), resp, Len(r.chain), r.chain)
            ELSE ScanPeers(Tail(order), resp, max_length, new_chain)

\* what a peer may answer to GET /chain
Responses ==
    {Unreachable, Malformed} \cup {[kind |-> "chain", chain |-> c] : c \in PeerChains}

\* BlockchainNode.resolve_conflicts, run without interference, with the
\* peers iterated in the given order and answering as resp says
ResolveWith(order, resp) ==
    /\ nodes # {}
    /\ LET scan == ScanPeers(order, resp, Len(chain), <<>>)
       IN IF scan.raised
          THEN /\ last' = Returned("resolve_conflicts", "error", <<>>)
               /\ UNCHANGED ledger
          ELSE IF Len(scan.chain) > 0
          THEN /\ chain' = dict_chain_to_objects(scan.chain)
               /\ chain_form' = "object"
               /\ last' = Returned("resolve_conflicts", "replaced", <<>>)
               /\ UNCHANGED pending_transactions
          ELSE /\ last' = Returned("resolve_conflicts", "not_replaced", <<>>)
               /\ UNCHANGED ledger
    /\ UNCHANGED <<settings, clock, network, next_id, threads>>

\* GET /nodes/resolve
ResolveConflicts ==
    \E order \in Orders(nodes) : \E resp \in [nodes \ {""} -> Responses] :
        ResolveWith(order, resp)

\* the transactions submitted to a node that also hears from peers
Requests ==
    {<<Genesis, "B", 10, 1>>, <<"A", "B", 10, 1>>, <<"A", "B", 0, 1>>,
     <<"A", "A", 10, 1>>}

\* the node with its operations run one at a time
Next ==
    \/ Tick
    \/ \E q \in Requests : NewTransaction(q[1], q[2], q[3], q[4])
    \/ \E m \in {"A"} : Mine(m)
    \/ \E data \in WireBlocks : ReceiveBlock(data)
    \/ \E c \in WireChains : SyncChain(c)
    \/ \E a \in PeerAddresses : RegisterNode(a)
    \/ ResolveConflicts

Spec == Init /\ [][Next]_vars

\* the node on its own: transactions submitted and blocks mined locally
NextLocal ==
    \/ Tick
    \/ \E s \in {Genesis, "A"}, r \in Users, a \in Amounts, f \in Fees :
           next_id <= MaxDrawn /\ NewTransaction(s, r, a, f)
    \/ \E m \in Miners : next_id <= MaxDrawn /\ Mine(m)

SpecLocal == Init /\ [][NextLocal]_vars

\* the addresses registered at a node that has two peers
TwoPeerAddresses ==
    {[scheme |-> "http", rest |-> "p1"], [scheme |-> "http", rest |-> "p3"]}

\* the node and its peers: transactions, mining, registration of two peers
\* and the resolution of conflicts with them
NextPeers ==
    \/ NewTransaction(Genesis, "B", 10, 1)
    \/ Mine("A")
    \/ \E a \in TwoPeerAddresses : RegisterNode(a)
    \/ ResolveConflicts

SpecPeers == Init /\ [][NextPeers]_vars

\* the addresses registered at a node that broadcasts: two peers with a
\* URL, and one address without "//", which leaves a peer with no valid URL
BroadcastAddresses == TwoPeerAddresses \cup {[scheme |-> "", rest |-> "p2"]}

\* the node that broadcasts what it accepts and what it mines to its peers
NextBroadcast ==
    \/ \E q \in Requests : NewTransactionBroadcast(q[1], q[2], q[3], q[4])
    \/ MineBroadcast("A")
    \/ \E a \in BroadcastAddresses : RegisterNode(a)

SpecBroadcast == Init /\ [][NextBroadcast]_vars

\* the transactions of the blocks of a chain, in chain order
RECURSIVE Committed(_)
Committed(ch) ==
    IF Len(ch) = 0 THEN <<>> ELSE ch[1].transactions \o Committed(Tail(ch))

\* the transactions a peer may broadcast to this node: one made on the peer,
\* and those this node has in its chain or its pool, sent once more
WireTransactions ==
    LET known == Committed(chain) \o pending_transactions
    IN {tx_to_dict(sign_transaction(Transaction(300, Genesis, "B", 10, 0, clock)))}
       \cup {tx_to_dict(known[i]) : i \in 1..Len(known)}

\* POST /broadcast/transaction
ReceiveTransaction(data) ==
    LET transaction == tx_from_dict(data)
        existing_tx == \E i \in 1..Len(pending_transactions) :
                           pending_transactions[i].id = transaction.id
    IN /\ Len(pending_transactions) < MaxPending
       /\ IF existing_tx
          THEN /\ last' = Returned("receive_transaction", "exists", <<transaction>>)
               /\ UNCHANGED ledger
          ELSE IF BalanceRaises(transaction)
          THEN /\ last' = Returned("receive_transaction", "error", <<transaction>>)
               /\ UNCHANGED ledger
          ELSE LET r == add_transaction(transaction)
               IN /\ pending_transactions' = r.pool
                  /\ last' = Returned("receive_transaction",
                                      IF r.accepted THEN "accepted" ELSE "rejected",
                                      <<r.tx>>)
                  /\ UNCHANGED <<chain, chain_form>>
       /\ UNCHANGED <<settings, clock, network, next_id, threads>>

\* the node among peers that broadcast transactions and blocks to it
NextGossip ==
    \/ \E q \in Requests : NewTransaction(q[1], q[2], q[3], q[4])
    \/ Mine("A")
    \/ \E data \in WireTransactions : ReceiveTransaction(data)
    \/ \E data \in WireBlocks : ReceiveBlock(data)

SpecGossip == Init /\ [][NextGossip]_vars

\* ------------------------------------------------------- a network of nodes
\* the uuid4 of the reward transaction a node makes for its block at index
NetId(n, index) == 200 + 10 * index + (IF n = "n1" THEN 1 ELSE 2)

\* Blockchain.mine_pending_transactions on node n with an empty pool
NetMine(n) ==
    /\ Len(network[n]) < MaxNetChain
    /\ LET ch == network[n]
           reward == sign_transaction(Transaction(NetId(n, Len(ch)), Genesis, n,
                                                  InitReward, 0, clock))
           block == mine_block(Block(Len(ch), <<reward>>, ch[Len(ch)].hash, n, clock),
                               InitDifficulty)
       IN /\ network' = [network EXCEPT ![n] = Append(ch, block)]
          /\ last' = Returned("net_mine", "ok", <<n>>)
    /\ UNCHANGED <<ledger, settings, clock, next_id, threads>>

\* GET /chain of every node of the network
NetResponses ==
    [m \in NetNodes |->
        [kind |-> "chain",
         chain |-> [i \in 1..Len(network[m]) |-> block_to_dict(network[m][i])]]]

\* BlockchainNode.resolve_conflicts on node n, whose peers are the other
\* nodes of the network, all reachable
NetResolve(n) ==
    /\ \E order \in Orders(NetNodes \ {n}) :
           LET scan == ScanPeers(order, NetResponses, Len(network[n]), <<>>)
           IN IF Len(scan.chain) > 0
              THEN /\ network' = [network EXCEPT ![n] = dict_chain_to_objects(scan.chain)]
                   /\ last' = Returned("net_resolve", "replaced", <<n, network[n]>>)
              ELSE /\ last' = Returned("net_resolve", "not_replaced", <<n, network[n]>>)
                   /\ UNCHANGED network
    /\ UNCHANGED <<ledger, settings, clock, next_id, threads>>

\* the network: every node mines and resolves conflicts with its peers
NextNet ==
    \/ \E n \in NetNodes : NetMine(n)
    \/ \E n \in NetNodes : NetResolve(n)

SpecNet == Init /\ [][NextNet]_vars

\* sync_periodically: every node runs resolve_conflicts again and again
SpecNetFair == SpecNet /\ \A n \in NetNodes : WF_vars(NetResolve(n))

\* --------------------------------------------------------- interleaved steps
\* The threads of a running node: request handlers, the mining loop and the
\* sync loop run against the same ledger with no lock; a step is one read or
\* one write of the chain or of the pool.

Goto(t, label) == pc' = [pc EXCEPT ![t] = label]

\* a mining loop that ends when its iteration is over
AfterMineLoopEnds(t) == IF t = "handler" THEN "idle" ELSE "off"

\* where a thread goes on when its mine_pending call has returned: the
\* handler answers, the mining loop broadcasts the block
AfterMine(t) == IF t = "handler" THEN "idle" ELSE "l_bcast"

\* where a thread goes on when its mine_pending call has raised: the handler
\* answers with the error, the mining loop's except clause prints it and the
\* loop sleeps and tests its flag again
AfterMiningError(t) == IF t = "handler" THEN "idle" ELSE "l_while"

\* the locals a thread keeps when its mine_pending call is over
KeptLocals(t) == IF t = "handler" THEN NoLocals ELSE [NoLocals EXCEPT !.miner = loc[t].miner]

\* POST /mine: the test of the pool, before mine_pending is called
MineRequest(m) ==
    /\ pc["handler"] = "idle"
    /\ next_id <= MaxDrawn
    /\ Len(chain) < MaxRacing
    /\ IF Len(pending_transactions) = 0
       THEN /\ last' = Returned("mine", "rejected", <<>>)
            /\ UNCHANGED <<pc, loc>>
       ELSE /\ Goto("handler", "m_pool")
            /\ loc' = [loc EXCEPT !["handler"] = [NoLocals EXCEPT !.miner = m]]
            /\ UNCHANGED last
    /\ UNCHANGED <<ledger, settings, clock, network, next_id, auto_mining, mining_thread>>

\* mine_pending: the reward transaction is made and the pool is read
MineReadPool(t) ==
    /\ pc[t] = "m_pool"
    /\ loc' = [loc EXCEPT ![t].txs =
                  pending_transactions \o <<RewardTransaction(loc[t].miner)>>]
    /\ next_id' = next_id + 1
    /\ Goto(t, "m_len")
    /\ UNCHANGED <<ledger, settings, clock, network, last, auto_mining, mining_thread>>

\* mine_pending: len(self.chain) is read
MineReadLength(t) ==
    /\ pc[t] = "m_len"
    /\ loc' = [loc EXCEPT ![t].index = Len(chain)]
    /\ Goto(t, "m_tip")
    /\ UNCHANGED <<ledger, settings, clock, network, next_id, last, auto_mining, mining_thread>>

\* mine_pending: the tip's hash is read, the block is built and the proof of
\* work is searched; on a chain of dictionaries the read raises
MineSearch(t) ==
    /\ pc[t] = "m_tip"
    /\ IF chain_form = "dict"
       THEN /\ Goto(t, AfterMiningError(t))
            /\ loc' = [loc EXCEPT ![t] = KeptLocals(t)]
            /\ last' = IF t = "handler" THEN Returned("mine", "error", <<>>) ELSE last
       ELSE /\ Goto(t, "m_append")
            /\ loc' = [loc EXCEPT ![t].block =
                          <<NewBlock(loc[t].txs, loc[t].index, get_latest_block.hash,
                                     loc[t].miner)>>]
            /\ UNCHANGED last
    /\ UNCHANGED <<ledger, settings, clock, network, next_id, auto_mining, mining_thread>>

\* mine_pending: self.chain.append(block)
MineAppend(t) ==
    /\ pc[t] = "m_append"
    /\ chain' = Append(chain, loc[t].block[1])
    /\ Goto(t, "m_clear")
    /\ UNCHANGED <<chain_form, pending_transactions, settings, clock, network, next_id, last,
                   auto_mining, mining_thread, loc>>

\* a mine_pending that removes from the pool only what it mined
MineClearMinedOnly(t) ==
    /\ pc[t] = "m_clear"
    /\ pending_transactions' = RemoveMined(pending_transactions, loc[t].txs)
    /\ \E saved \in BOOLEAN : last' = Returned("mine", "ok", loc[t].block \o <<saved>>)
    /\ Goto(t, AfterMine(t))
    /\ loc' = [loc EXCEPT ![t] = KeptLocals(t)]
    /\ UNCHANGED <<chain, chain_form, settings, clock, network, next_id, auto_mining,
                   mining_thread>>

\* mine_pending: self.pending_transactions = [], the block and the state are
\* saved, which succeeds or fails without raising, and the block is returned
MineClear(t) ==
    /\ pc[t] = "m_clear"
    /\ pending_transactions' = <<>>
    /\ \E saved \in BOOLEAN : last' = Returned("mine", "ok", loc[t].block \o <<saved>>)
    /\ Goto(t, AfterMine(t))
    /\ loc' = [loc EXCEPT ![t] = KeptLocals(t)]
    /\ UNCHANGED <<chain, chain_form, settings, clock, network, next_id, auto_mining,
                   mining_thread>>

\* BlockchainNode.start_auto_mining: a thread is started unless the one
\* remembered in mining_thread is alive
StartThread(m, pool) ==
    IF mining_thread = "none" \/ pc[mining_thread] = "off"
    THEN \E t \in pool :
            /\ pc[t] = "off"
            /\ mining_thread' = t
            /\ Goto(t, "l_while")
            /\ loc' = [loc EXCEPT ![t] = [NoLocals EXCEPT !.miner = m]]
    ELSE UNCHANGED <<mining_thread, pc, loc>>

\* start_auto_mining on a node that runs one mining thread at a time
start_auto_mining(m) == StartThread(m, LoopThreads)

\* BlockchainNode.stop_auto_mining
stop_auto_mining ==
    /\ mining_thread' = "none"
    /\ UNCHANGED <<pc, loc>>

\* POST /auto_mine
ToggleAutoMining(enabled, m) ==
    /\ pc["handler"] = "idle"
    /\ auto_mining' = enabled
    /\ IF enabled THEN start_auto_mining(m) ELSE stop_auto_mining
    /\ last' = Returned("auto_mine", IF enabled THEN "started" ELSE "stopped", <<>>)
    /\ UNCHANGED <<ledger, settings, clock, network, next_id>>

\* POST /auto_mine on a node that can create a second mining thread
ToggleAutoMiningAgain(enabled, m) ==
    /\ pc["handler"] = "idle"
    /\ auto_mining' = enabled
    /\ IF enabled THEN StartThread(m, Loops) ELSE stop_auto_mining
    /\ last' = Returned("auto_mine", IF enabled THEN "started" ELSE "stopped", <<>>)
    /\ UNCHANGED <<ledger, settings, clock, network, next_id>>

\* a mining loop that goes round whatever the flag says
LoopWhileDeaf(t) ==
    /\ pc[t] = "l_while"
    /\ Goto(t, "l_check")
    /\ UNCHANGED <<ledger, settings, clock, network, next_id, last, auto_mining, mining_thread,
                   loc>>

\* mine_continuously: while self.auto_mining
LoopWhile(t) ==
    /\ pc[t] = "l_while"
    /\ IF auto_mining
       THEN Goto(t, "l_check") /\ UNCHANGED loc
       ELSE Goto(t, "off") /\ loc' = [loc EXCEPT ![t] = NoLocals]
    /\ UNCHANGED <<ledger, settings, clock, network, next_id, last, auto_mining, mining_thread>>

\* mine_continuously: if self.blockchain.pending_transactions, else sleep.
\* A call of mine_pending is started while the chain is short enough to grow;
\* on a chain of dictionaries the call raises before it appends
LoopCheck(t) ==
    /\ pc[t] = "l_check"
    /\ IF Len(pending_transactions) > 0
       THEN /\ next_id <= MaxDrawn
            /\ Len(chain) < MaxRacing \/ chain_form = "dict"
            /\ Goto(t, "m_pool")
       ELSE Goto(t, "l_while")
    /\ UNCHANGED <<ledger, settings, clock, network, next_id, last, auto_mining, mining_thread,
                   loc>>

\* mine_continuously: self.broadcast_block(block), then sleep
LoopBroadcast(t) ==
    /\ pc[t] = "l_bcast"
    /\ \E order \in Orders(nodes) : \E outcome \in [nodes \ {""} -> PostResults] :
           last' = Returned("broadcast_block", "done", <<broadcast_block(order, outcome)>>)
    /\ Goto(t, "l_while")
    /\ UNCHANGED <<ledger, settings, clock, network, next_id, auto_mining, mining_thread, loc>>

\* POST /broadcast/block: the tests of the received block
ReceiveCheck(data) ==
    /\ pc["handler"] = "idle"
    /\ Len(chain) < MaxRacing
    /\ IF chain_form = "dict"
       THEN /\ last' = Returned("receive_block", "error", <<>>)
            /\ UNCHANGED <<pc, loc>>
       ELSE IF \E i \in 1..Len(chain) : chain[i].index = data.index
       THEN /\ last' = Returned("receive_block", "exists", <<>>)
            /\ UNCHANGED <<pc, loc>>
       ELSE IF ValidSuccessor(block_from_dict(data))
       THEN /\ Goto("handler", "r_append")
            /\ loc' = [loc EXCEPT !["handler"].block = <<block_from_dict(data)>>]
            /\ UNCHANGED last
       ELSE /\ last' = Returned("receive_block", "rejected", <<>>)
            /\ UNCHANGED <<pc, loc>>
    /\ UNCHANGED <<ledger, settings, clock, network, next_id, auto_mining, mining_thread>>

\* POST /broadcast/block: self.blockchain.chain.append(block)
ReceiveAppend ==
    /\ pc["handler"] = "r_append"
    /\ chain' = Append(chain, loc["handler"].block[1])
    /\ Goto("handler", "r_filter")
    /\ UNCHANGED <<chain_form, pending_transactions, settings, clock, network, next_id, last,
                   auto_mining, mining_thread, loc>>

\* POST /broadcast/block: the mined transactions are removed from the pool
ReceiveFilter ==
    /\ pc["handler"] = "r_filter"
    /\ pending_transactions' =
           RemoveMined(pending_transactions, loc["handler"].block[1].transactions)
    /\ last' = Returned("receive_block", "accepted", loc["handler"].block)
    /\ Goto("handler", "idle")
    /\ loc' = [loc EXCEPT !["handler"] = NoLocals]
    /\ UNCHANGED <<chain, chain_form, settings, clock, network, next_id, auto_mining,
                   mining_thread>>

\* sync_periodically: resolve_conflicts reads the chain length and asks the
\* peers
SyncQuery ==
    /\ pc["sync"] = "idle"
    /\ nodes # {}
    /\ \E order \in Orders(nodes) :
       \E resp \in [nodes \ {""} -> Responses] :
           LET scan == ScanPeers(order, resp, Len(chain), <<>>)
           IN IF scan.raised
              THEN /\ last' = Returned("resolve_conflicts", "error", <<>>)
                   /\ UNCHANGED <<pc, loc>>
              ELSE IF Len(scan.chain) > 0
              THEN /\ Goto("sync", "s_install")
                   /\ loc' = [loc EXCEPT !["sync"].chain = scan.chain]
                   /\ UNCHANGED last
              ELSE /\ last' = Returned("resolve_conflicts", "not_replaced", <<>>)
                   /\ UNCHANGED <<pc, loc>>
    /\ UNCHANGED <<ledger, settings, clock, network, next_id, auto_mining, mining_thread>>

\* sync_periodically: resolve_conflicts installs the chain it found
SyncInstall ==
    /\ pc["sync"] = "s_install"
    /\ chain' = dict_chain_to_objects(loc["sync"].chain)
    /\ chain_form' = "object"
    /\ last' = Returned("resolve_conflicts", "replaced", <<>>)
    /\ Goto("sync", "idle")
    /\ loc' = [loc EXCEPT !["sync"] = NoLocals]
    /\ UNCHANGED <<pending_transactions, settings, clock, network, next_id, auto_mining,
                   mining_thread>>

\* the blocks peers broadcast to a running node: a successor of the tip as
\* the peer mined it, or with a stored hash that is not its digest
ConcBlocks ==
    {Rehash(Tamper(PeerBlock(Len(chain), <<RemoteReward(Len(chain), "M", mining_reward,
                                                        clock)>>,
                             get_latest_block.hash, "M", clock, difficulty), v[1]), v[2]) :
        v \in {<<"none", FALSE>>, <<"hash", FALSE>>}}

\* the running node: the handler's requests, the mining loop and the sync
\* loop, interleaved
NextConc ==
    \/ pc["handler"] = "idle" /\ next_id <= MaxDrawn /\ NewTransaction(Genesis, "B", 10, 1)
    \/ MineRequest("A")
    \/ \E data \in ConcBlocks : ReceiveCheck(data)
    \/ ReceiveAppend
    \/ ReceiveFilter
    \/ pc["handler"] = "idle" /\ RegisterNode([scheme |-> "http", rest |-> "p1"])
    \/ \E enabled \in BOOLEAN : ToggleAutoMining(enabled, "M")
    \/ \E t \in LoopThreads : LoopWhile(t)
    \/ \E t \in LoopThreads : LoopCheck(t)
    \/ \E t \in LoopThreads : LoopBroadcast(t)
    \/ \E t \in Threads : MineReadPool(t)
    \/ \E t \in Threads : MineReadLength(t)
    \/ \E t \in Threads : MineSearch(t)
    \/ \E t \in Threads : MineAppend(t)
    \/ \E t \in Threads : MineClear(t)
    \/ SyncQuery
    \/ SyncInstall

SpecConc == Init /\ [][NextConc]_vars

\* ------------------------------------------------- the methods of one block
\* the longest transaction list of a block built on its own
MaxTxs == 4

\* the greatest difficulty a search is run with: the most zero symbols a
\* digest begins with
MaxDifficulty == 2 * (ZeroCycle - 1)

\* transactions as add_transaction and mine_pending leave them in a block
SampleTxs ==
    {sign_transaction(Transaction(1, Genesis, "A", 50, 0, 0)),
     sign_transaction(Transaction(2, "A", "B", 10, 1, 0)),
     sign_transaction(Transaction(3, "A", "B", 10, 1, 1))}

\* the transaction lists a block may be built with
TxLists == UNION {[1..n -> SampleTxs] : n \in 0..MaxTxs}

\* Block(...) as the constructor leaves it, and with block.hash set to
\* calculate_hash() as create_genesis_block does
BuiltBlocks ==
    LET fresh == {Block(i, txs, prev, "A", ts) :
                     i \in 0..1, txs \in TxLists,
                     prev \in {ZeroHash, create_genesis_block(0).hash}, ts \in 0..MaxClock}
    IN fresh \cup {[b EXCEPT !.hash = calculate_hash(b)] : b \in fresh}

\* a block has been built
InitBlock ==
    /\ Constructed
    /\ \E b \in BuiltBlocks : last = Returned("Block", "built", <<b>>)

\* block.mine_block(d)
MineBlockCall(d) ==
    /\ last.op = "Block"
    /\ last' = Returned("mine_block", "returned", <<last.ret[1], d, mine_block(last.ret[1], d)>>)
    /\ UNCHANGED <<ledger, settings, clock, network, next_id, threads>>

\* the list with the entries at positions i and j exchanged
Swap(txs, i, j) == [txs EXCEPT ![i] = txs[j], ![j] = txs[i]]

\* two transactions of the list change places and the block is built again
\* with the new list
SwapCall(i, j) ==
    /\ last.op = "Block"
    /\ i < j
    /\ j <= Len(last.ret[1].transactions)
    /\ LET b == last.ret[1]
           swapped == Swap(b.transactions, i, j)
       IN last' = Returned("swap", "built",
                           <<b, Block(b.index, swapped, b.previous_hash, b.miner_address,
                                      b.timestamp), i, j>>)
    /\ UNCHANGED <<ledger, settings, clock, network, next_id, threads>>

NextBlock ==
    \/ \E d \in 0..MaxDifficulty : MineBlockCall(d)
    \/ \E i, j \in 1..MaxTxs : SwapCall(i, j)

SpecBlock == InitBlock /\ [][NextBlock]_vars

\* ------------------------------------------------------------ auto-mining
\* the chain a POST /sync may offer to a node that mines on its own: the
\* node's chain with one block a peer mined on top
LongerChains ==
    {Extend(ToWire(chain), 1, "M", mining_reward, clock, difficulty) :
        k \in 1..(IF Len(chain) < MaxChain THEN 1 ELSE 0)}

\* one step of the thread that runs mine_continuously
LoopStep(t) ==
    \/ LoopWhile(t)
    \/ LoopCheck(t)
    \/ MineReadPool(t)
    \/ MineReadLength(t)
    \/ MineSearch(t)
    \/ MineAppend(t)
    \/ MineClear(t)
    \/ LoopBroadcast(t)

\* the node that mines on its own: transactions are submitted, auto-mining is
\* switched on and off, a peer is registered, a chain is offered to /sync, and
\* the mining loop runs
NextAuto ==
    \/ NewTransaction(Genesis, "B", 10, 1)
    \/ \E enabled \in BOOLEAN : ToggleAutoMining(enabled, "M")
    \/ RegisterNode([scheme |-> "http", rest |-> "p1"])
    \/ \E c \in LongerChains : SyncChain(c)
    \/ \E t \in LoopThreads : LoopStep(t)

SpecAuto == Init /\ [][NextAuto]_vars

\* the mining-loop thread is scheduled again and again
SpecAutoFair == SpecAuto /\ \A t \in LoopThreads : WF_vars(LoopStep(t))

\* ------------------------------------------------------------ imported chains
\* the node's genesis block as a peer may send it: the stored hash replaced
ForgedGenesis == [block_to_dict(chain[1]) EXCEPT !.hash = BadHash]

\* the changes applied to the last block of an offered chain
ImportVariants ==
    {<<"hash", FALSE>>, <<"nonce", TRUE>>, <<"merkle", TRUE>>, <<"miner", FALSE>>}

\* the chains offered to a node by POST /sync or by a peer's GET /chain: the
\* node's chain, or a chain on a genesis block with another stored hash, with
\* blocks mined on top by a peer, as mined or with the last block changed
ImportChains ==
    LET bases == {ToWire(chain), <<ForgedGenesis>>}
        mined == {Extend(b, n, "M", mining_reward, clock, difficulty) :
                     b \in bases, n \in 1..2}
        ok == {c \in mined : Len(c) <= MaxChain}
    IN ok \cup {TamperAt(c, Len(c), v[1], v[2]) : c \in ok, v \in ImportVariants}

\* what a peer may answer to GET /chain
ImportResponses ==
    {Unreachable} \cup {[kind |-> "chain", chain |-> c] : c \in ImportChains}

\* GET /nodes/resolve with peers that answer with offered chains
ResolveImport ==
    \E order \in Orders(nodes) : \E resp \in [nodes \ {""} -> ImportResponses] :
        ResolveWith(order, resp)

\* the node that takes blocks and chains from its peers
NextImport ==
    \/ NewTransaction(Genesis, "B", 10, 1)
    \/ Mine("A")
    \/ \E data \in WireBlocks : ReceiveBlock(data)
    \/ \E c \in ImportChains : SyncChain(c)
    \/ RegisterNode([scheme |-> "http", rest |-> "p1"])
    \/ ResolveImport

SpecImport == Init /\ [][NextImport]_vars

\* ------------------------------------------------------------------ spending
\* the transfers submitted to a node by a sender that gets paid once
SpendRequests ==
    {<<Genesis, "A", 50, 0>>, <<"A", "B", 50, 0>>, <<"A", "B", 10, 1>>}

\* the node on its own with a sender that spends what it was paid
NextSpend ==
    \/ \E q \in SpendRequests : NewTransaction(q[1], q[2], q[3], q[4])
    \/ \E m \in Miners : Mine(m)

SpecSpend == Init /\ [][NextSpend]_vars

\* --------------------------------------------------------- repeated toggles
\* the node whose auto-mining is switched on and off again and again, for
\* one miner address or another
NextToggle ==
    \/ NewTransaction(Genesis, "B", 10, 1)
    \/ \E enabled \in BOOLEAN, m \in Miners : ToggleAutoMiningAgain(enabled, m)
    \/ \E t \in Loops : LoopStep(t)

SpecToggle == Init /\ [][NextToggle]_vars

\* ------------------------------------------------------------------ claims

\* C1: after any sequence of ledger operations run one at a time, every block
\* after the first names its predecessor's hash as previous_hash and has its
\* position in the chain as index.
C1_ChainLinkedAndIndexed ==
    \A i \in 2..Len(chain) :
        /\ chain[i].previous_hash = chain[i - 1].hash
        /\ chain[i].index = i - 1

\* C2: with the request handler, the mining loop and the sync loop
\* interleaved, every block after the first still names its predecessor's
\* hash as previous_hash and has its position in the chain as index: no block
\* built on an earlier tip is appended.
C2_ChainLinkedUnderInterleaving ==
    \A i \in 1..(Len(chain) - 1) :
        /\ chain[i + 1].index = i
        /\ chain[i + 1].previous_hash = chain[i].hash

\* C3: replace_chain replaces the chain exactly when the candidate is strictly
\* longer than the chain and passes the pairwise validation; it then holds the
\* candidate, and otherwise it reports not-replaced and the chain is as before.
\* So the chain never gets shorter, an equal-length candidate and a longer
\* candidate that fails validation are refused.
C3_ReplaceLongerValidOnly ==
    [][last'.op = "replace_chain" =>
       \A c \in WireChains :
          SyncChain(c) =>
              LET longer == Len(c) > Len(chain)
                  valid == \A i \in 2..Len(c) :
                               /\ c[i].hash = calculate_hash(c[i])
                               /\ c[i].previous_hash = c[i - 1].hash
              IN /\ (last'.result = "replaced") <=> (longer /\ valid)
                 /\ (last'.result = "not_replaced") <=> ~(longer /\ valid)
                 /\ (longer /\ valid) => chain' = c
                 /\ ~(longer /\ valid) => chain' = chain
                 /\ Len(chain') >= Len(chain)]_vars

\* a longer valid candidate has replaced a chain
C3_Witness ==
    /\ last.op = "replace_chain"
    /\ last.result = "replaced"
    /\ Len(chain) = MaxChain

\* the values a stored field may be changed to
HashValues == {None, ZeroHash, BadHash} \cup {chain[j].hash : j \in 1..Len(chain)}
NonceValues == 0..(ZeroCycle + 1)

\* the chain with one field of the block at position pos set to value v
Mutated(pos, field, v) ==
    [chain EXCEPT ![pos] =
        CASE field = "hash" -> [@ EXCEPT !.hash = v]
          [] field = "nonce" -> [@ EXCEPT !.nonce = v]
          [] field = "previous_hash" -> [@ EXCEPT !.previous_hash = v]]

\* the chains that differ from the chain in the stored hash, the nonce or the
\* previous_hash of the block at position pos
Mutations(pos) ==
    {Mutated(pos, "hash", v) : v \in HashValues \ {chain[pos].hash}}
    \cup {Mutated(pos, "nonce", v) : v \in NonceValues \ {chain[pos].nonce}}
    \cup {Mutated(pos, "previous_hash", v) : v \in HashValues \ {chain[pos].previous_hash}}

\* C4 as claimed: a chain built by mining passes validate_chain, and with the
\* stored hash, the nonce or the previous_hash of any one block changed,
\* block 0 included, it fails validate_chain.
C4_AnyBlockMutationDetected ==
    Len(chain) >= 2 =>
        /\ validate_chain
        /\ \A pos \in 1..Len(chain) : \A m \in Mutations(pos) : ~validate_imported_chain(m)

\* C4 as amended: a chain built by mining passes validate_chain; changing the
\* stored hash, the nonce or the previous_hash of a block at index >= 1 makes
\* it fail; of block 0 only a changed stored hash is detected, and only when
\* the chain has a block 1.
C4_LaterBlockMutationDetected ==
    /\ validate_chain
    /\ \A pos \in 2..Len(chain) : \A m \in Mutations(pos) : ~validate_imported_chain(m)
    /\ Len(chain) >= 2 =>
           \A v \in HashValues \ {chain[1].hash} :
               ~validate_imported_chain(Mutated(1, "hash", v))
    /\ \A v \in NonceValues : validate_imported_chain(Mutated(1, "nonce", v))
    /\ \A v \in HashValues : validate_imported_chain(Mutated(1, "previous_hash", v))

\* two blocks have been mined on the genesis block
C4_Witness ==
    /\ Len(chain) = 3
    /\ last.op = "mine"
    /\ last.result = "ok"

\* C5: add_transaction accepts exactly when sender and recipient differ, the
\* amount is positive and the sender is "genesis" or has a balance over the
\* chain of at least amount + fee; the accepted transaction is signed and is
\* the last of the pool, behind the transactions that were there.
C5_AdmissionRule ==
    [][last'.op = "add_transaction" =>
       LET t == last'.ret[1]
           s == t.sender
           r == t.recipient
           a == t.amount
           f == t.fee
       IN NewTransaction(s, r, a, f) =>
              LET ok == /\ s # r
                        /\ a > 0
                        /\ \/ s = Genesis
                           \/ get_balance(chain, mining_reward, s) >= a + f
                  signed == [id |-> next_id, sender |-> s, recipient |-> r,
                             amount |-> a, fee |-> f, timestamp |-> clock,
                             signature |-> <<"h", s, r, a, clock>>]
              IN /\ (last'.result = "accepted") <=> ok
                 /\ ok => /\ pending_transactions' = Append(pending_transactions, signed)
                          /\ last'.ret = <<signed>>]_vars

\* a sender other than "genesis" had the balance and was accepted behind a
\* transaction already in the pool
C5_Witness ==
    /\ last.op = "add_transaction"
    /\ last.result = "accepted"
    /\ last.ret[1].sender = "A"
    /\ Len(pending_transactions) = 2

\* C6: when add_transaction rejects, the chain, the pool and the peer set are
\* as before the call and the transaction is as it was created, unsigned.
C6_RejectionLeavesNoTrace ==
    [][(last'.op = "add_transaction" /\ last'.result = "rejected") =>
       LET t == last'.ret[1]
       IN NewTransaction(t.sender, t.recipient, t.amount, t.fee) =>
              /\ UNCHANGED <<chain, chain_form, pending_transactions, nodes>>
              /\ t = Transaction(next_id, t.sender, t.recipient, t.amount, t.fee, clock)
              /\ t.signature = None]_vars

\* a transaction was rejected for its sender's balance while the node had a
\* block on the genesis block, a transaction in the pool and a peer
C6_Witness ==
    /\ last.op = "add_transaction"
    /\ last.result = "rejected"
    /\ last.ret[1].sender = "A"
    /\ last.ret[1].recipient = "B"
    /\ last.ret[1].amount > 0
    /\ Len(pending_transactions) > 0
    /\ Len(chain) > 1
    /\ nodes # {}

\* C7: mine_pending appends one block: its index is the chain length before
\* the call, its previous_hash the hash of the old tip, its transactions the
\* pool in pool order followed by one reward transaction from "genesis" to
\* the miner of amount mining_reward; the pool is empty afterwards and the
\* block is returned.
C7_MineAppendsPoolAndReward ==
    [][(last'.op = "mine" /\ last'.result = "ok") =>
       LET m == last'.ret[1].miner_address IN
          (Mine(m) /\ last'.result = "ok") =>
              LET b == chain'[Len(chain')]
                  n == Len(pending_transactions)
              IN /\ Len(chain') = Len(chain) + 1
                 /\ SubSeq(chain', 1, Len(chain)) = chain
                 /\ b.index = Len(chain)
                 /\ b.previous_hash = chain[Len(chain)].hash
                 /\ Len(b.transactions) = n + 1
                 /\ SubSeq(b.transactions, 1, n) = pending_transactions
                 /\ b.transactions[n + 1].sender = Genesis
                 /\ b.transactions[n + 1].recipient = m
                 /\ b.transactions[n + 1].amount = mining_reward
                 /\ pending_transactions' = <<>>
                 /\ last'.ret = <<b>>]_vars

\* a block with two pool transactions and the reward was mined
C7_Witness ==
    /\ last.op = "mine"
    /\ last.result = "ok"
    /\ Len(last.ret[1].transactions) = 3
    /\ pending_transactions = <<>>

\* the fields of a transaction that a request gives
Gives(tx, s, r, a, f) ==
    tx.sender = s /\ tx.recipient = r /\ tx.amount = a /\ tx.fee = f

\* C8: on the genesis-only chain a transaction from A to B of 10 is rejected
\* and a transaction from "genesis" to A of 50 is accepted; mined by a miner
\* other than A it is in block 1, the pool is empty and A's balance is 50.
C8_Scenario ==
    /\ (Len(chain) = 1 /\ last.op = "add_transaction"
            /\ Gives(last.ret[1], "A", "B", 10, 0))
           => last.result = "rejected"
    /\ (Len(chain) = 1 /\ last.op = "add_transaction"
            /\ Gives(last.ret[1], Genesis, "A", 50, 0))
           => last.result = "accepted"
    /\ (/\ Len(chain) = 2
        /\ last.op = "mine"
        /\ last.result = "ok"
        /\ chain[2].miner_address # "A"
        /\ Len(chain[2].transactions) = 2
        /\ Gives(chain[2].transactions[1], Genesis, "A", 50, 0))
           => /\ chain[2].index = 1
              /\ pending_transactions = <<>>
              /\ get_balance(chain, mining_reward, "A") = 50

\* the scenario has run to its end
C8_Witness ==
    /\ Len(chain) = 2
    /\ last.op = "mine"
    /\ last.result = "ok"
    /\ chain[2].miner_address = "M"
    /\ Len(chain[2].transactions) = 2
    /\ Gives(chain[2].transactions[1], Genesis, "A", 50, 0)
    /\ get_balance(chain, mining_reward, "A") = 50

\* no transaction of the pool has address as sender or recipient
NotInPool(address) ==
    \A i \in 1..Len(pending_transactions) :
        /\ pending_transactions[i].sender # address
        /\ pending_transactions[i].recipient # address

\* C9: a mined block credits its miner with mining_reward once: when no
\* transaction of the pool involves the miner, mining raises the miner's
\* balance by mining_reward.
C9_MinerCreditedOnce ==
    [][(last'.op = "mine" /\ last'.result = "ok") =>
       LET m == last'.ret[1].miner_address IN
          (Mine(m) /\ last'.result = "ok" /\ NotInPool(m)) =>
              get_balance(chain', mining_reward, m)
                  = get_balance(chain, mining_reward, m) + mining_reward]_vars

RECURSIVE SumFees(_)
SumFees(txs) == IF Len(txs) = 0 THEN 0 ELSE txs[1].fee + SumFees(Tail(txs))

RECURSIVE SumOver(_, _)
SumOver(S, ch) ==
    IF S = {} THEN 0
    ELSE LET a == CHOOSE x \in S : TRUE
         IN get_balance(ch, mining_reward, a) + SumOver(S \ {a}, ch)

\* the sum of the balances of all addresses
TotalBalance(ch) == SumOver(Address, ch)

\* C10: committing the pool changes the sum of all balances by minus the
\* fees of the committed transactions, the block's miner credit left aside;
\* the reward transaction moves its amount from "genesis" to the miner and
\* leaves the sum as it is.
C10_ConservedUpToFees ==
    [][(last'.op = "mine" /\ last'.result = "ok") =>
       LET m == last'.ret[1].miner_address IN
          (Mine(m) /\ last'.result = "ok") =>
              TotalBalance(chain') - mining_reward
                  = TotalBalance(chain) - SumFees(pending_transactions)]_vars

\* a block was mined that commits a transaction with a fee
C10_Witness ==
    /\ last.op = "mine"
    /\ last.result = "ok"
    /\ SumFees(last.ret[1].transactions) > 0
    /\ Len(chain) = 3

\* the pool without the transactions whose id is the id of a transaction of txs
WithoutIds(pool, txs) ==
    SelectSeq(pool, LAMBDA p : \A i \in 1..Len(txs) : txs[i].id # p.id)

\* the three conditions on a received block: its stored hash is its digest,
\* its previous_hash is the tip's hash, its index is the chain length
MeetsConditions(b) ==
    /\ b.hash = <<"h", b.index, b.timestamp, b.previous_hash, b.merkle_root, b.nonce>>
    /\ b.previous_hash = chain[Len(chain)].hash
    /\ b.index = Len(chain)

\* C11: receive_block appends the candidate exactly when its stored hash is
\* its recomputed hash, its previous_hash is the tip's hash and its index is
\* the chain length; on acceptance the pool loses exactly the transactions
\* whose id is the id of a transaction of the candidate and keeps the others
\* in their order.
C11_ReceiveAppendsExactlyValid ==
    [][last'.op = "receive_block" =>
       \A data \in WireBlocks :
          ReceiveBlock(data) =>
              /\ (chain' = Append(chain, data)) <=> MeetsConditions(data)
              /\ ~MeetsConditions(data) => chain' = chain
              /\ MeetsConditions(data) =>
                     pending_transactions' =
                         WithoutIds(pending_transactions, data.transactions)]_vars

\* C12: once receive_block has accepted a block, receiving the same block
\* again is refused, as a duplicate or for its index, and leaves the chain
\* and the pool as they were after the first receipt.
C12_SecondReceiptRefused ==
    [][(/\ last.op = "receive_block"
        /\ last.result = "accepted"
        /\ ReceiveBlock(block_to_dict(last.ret[1])))
           => /\ last'.result \in {"exists", "rejected"}
              /\ chain' = chain
              /\ pending_transactions' = pending_transactions]_vars

\* a block received from a peer, and accepted before, was refused as a
\* duplicate
C12_Witness ==
    /\ last.op = "receive_block"
    /\ last.result = "exists"
    /\ chain_form = "object"
    /\ Len(chain) = 2
    /\ chain[2].miner_address = "M"
    /\ chain[2].transactions[Len(chain[2].transactions)].id = RemoteId(1, "M")

\* C13: when receive_block refuses a block, for its stored hash, its
\* previous_hash or its index, the chain and the pool are as before the call.
C13_RefusalLeavesLedger ==
    [][(last'.op = "receive_block" /\ last'.result = "rejected") =>
       \A data \in WireBlocks :
          ReceiveBlock(data) =>
              /\ ~MeetsConditions(data)
              /\ UNCHANGED <<chain, chain_form, pending_transactions>>]_vars

\* a block was refused while the node had a mined block and a transaction in
\* the pool
C13_Witness ==
    /\ last.op = "receive_block"
    /\ last.result = "rejected"
    /\ Len(chain) > 1
    /\ Len(pending_transactions) > 0

\* the chains that reachable peers report under resp and that are longer than
\* the node's chain and pass the pairwise validation
LongerValid(resp) ==
    {resp[n].chain : n \in {x \in DOMAIN resp :
                               /\ resp[x].kind = "chain"
                               /\ Len(resp[x].chain) > Len(chain)
                               /\ \A i \in 2..Len(resp[x].chain) :
                                     /\ resp[x].chain[i].hash
                                            = calculate_hash(resp[x].chain[i])
                                     /\ resp[x].chain[i].previous_hash
                                            = resp[x].chain[i - 1].hash}}

\* every peer answers a chain or is unreachable
WellFormed(resp) == \A n \in DOMAIN resp : resp[n].kind # "malformed"

C15_FailedPeerSkipped ==
    [][last'.op = "resolve_conflicts" =>
       \A order \in Orders(nodes) : \A resp \in [nodes \ {""} -> Responses] :
          ResolveWith(order, resp) =>
              /\ last'.result # "error"
              /\ LongerValid(resp) # {} =>
                     /\ last'.result = "replaced"
                     /\ chain' \in LongerValid(resp)]_vars

\* the chain a node of the network has after it mined k blocks on its own
\* genesis block and did nothing else
OwnChain(ch, n, k) ==
    /\ Len(ch) = k + 1
    /\ ch[1].timestamp = GenesisTime(n)
    /\ ch[1].miner_address = Genesis
    /\ \A i \in 2..Len(ch) : ch[i].miner_address = n

\* C16: two nodes, each on its own genesis block; node1 has mined 3 blocks
\* and node2 has mined 1 block; when node2 runs resolve_conflicts with node1
\* as peer, its chain is replaced, has length 4 and node1's tip hash.
C16_ShorterNodeAdoptsLonger ==
    [][(/\ OwnChain(network["n1"], "n1", 3)
        /\ OwnChain(network["n2"], "n2", 1)
        /\ NetResolve("n2"))
           => /\ last'.result = "replaced"
              /\ Len(network'["n2"]) = 4
              /\ network'["n2"][4].hash = network["n1"][4].hash
              /\ network'["n1"] = network["n1"]]_vars

\* node2, with one block of its own, has taken the chain of node1, which
\* mined 3 blocks
C16_Witness ==
    /\ last.op = "net_resolve"
    /\ last.result = "replaced"
    /\ last.ret[1] = "n2"
    /\ OwnChain(last.ret[2], "n2", 1)
    /\ OwnChain(network["n1"], "n1", 3)
    /\ network["n2"] = network["n1"]

\* all nodes of the network hold the same chain
NetSameChain == \A m, n \in NetNodes : network[m] = network[n]

\* all nodes of the network hold chains of the same length
NetSameLength == \A m, n \in NetNodes : Len(network[m]) = Len(network[n])

\* C17 as claimed: with every node a peer of every other, all reachable, and
\* every node running resolve_conflicts again and again, once no node mines
\* any more all nodes eventually hold the same chain for good.
C17_AllNodesSameChain == <>[]NetSameChain

\* C17 as amended: under the same conditions all nodes eventually hold chains
\* of the same length for good; chains of that length that differ are kept.
C17_AllNodesSameLength == <>[]NetSameLength

\* a node has taken a longer chain and all chains have the same length, of
\* at least two blocks
C17_Witness ==
    /\ last.op = "net_resolve"
    /\ last.result = "replaced"
    /\ NetSameLength
    /\ Len(network["n1"]) >= 3

\* the ids of the transactions of a sequence
Ids(txs) == [i \in 1..Len(txs) |-> txs[i].id]

\* C19: a transaction is committed at most once: each transaction id occurs
\* at most once over the blocks of the chain together with the pool.
C19_EachIdAtMostOnce ==
    LET ids == Ids(Committed(chain) \o pending_transactions)
    IN \A i, j \in 1..Len(ids) : ids[i] = ids[j] => i = j

\* the positions at which a thread is in the middle of a step on the ledger:
\* it has read the pool but not yet the chain (m_len, m_tip), it has appended
\* its block but not yet cleared the pool (m_clear), it has tested a received
\* block but not yet appended it (r_append) or not yet filtered the pool
\* (r_filter).  A thread that only searches a proof of work, or waits for a
\* peer's answer, is at none of them.
InLedgerStep == {"m_len", "m_tip", "m_clear", "r_append", "r_filter"}

\* C18: the steps on the chain and the pool are serialized: at no time are
\* two of the request handler, the mining loop and the sync loop each in the
\* middle of such a step.
C18_LedgerStepsSerialized ==
    \A t, u \in Threads : (pc[t] \in InLedgerStep /\ pc[u] \in InLedgerStep) => t = u

\* C20: a transaction of the pool leaves the pool only when a block of the
\* chain contains it, in every interleaving of the request handler and the
\* mining loop (the node has no peer, so the sync loop never touches the
\* chain).
C20_LeavesPoolOnlyIntoChain ==
    [][\A i \in 1..Len(pending_transactions) :
          (/\ nodes = {}
           /\ \A j \in 1..Len(pending_transactions') :
                  pending_transactions'[j].id # pending_transactions[i].id)
              => \E k \in 1..Len(chain') : \E l \in 1..Len(chain'[k].transactions) :
                     chain'[k].transactions[l].id = pending_transactions[i].id]_vars

\* how far the mining-loop thread is from the end of its iteration: it tests
\* the pool, calls mine_pending, appends, clears, broadcasts, and is back at
\* the test of the flag, where it ends when the flag is off
LoopRank(label) ==
    CASE label = "off" -> 0
      [] label = "l_while" -> 1
      [] label = "l_bcast" -> 2
      [] label = "m_clear" -> 3
      [] label = "m_append" -> 4
      [] label = "m_tip" -> 5
      [] label = "m_len" -> 6
      [] label = "m_pool" -> 7
      [] label = "l_check" -> 8

\* C21 as claimed: once auto-mining is off, and while it stays off, the mining
\* loop starts no new mine_pending call.
C21_NoMineCallWhileOff ==
    [][(~auto_mining /\ ~auto_mining') =>
          \A t \in LoopThreads : ~(pc[t] = "l_check" /\ pc'[t] = "m_pool")]_vars

\* C21 as amended: once auto-mining is off, and while it stays off, the mining
\* loop starts no new iteration: the iteration that had passed the test of the
\* flag runs to its end (it may still call mine_pending once and append that
\* block), and at its next test of the flag the loop ends.
C21_NoIterationWhileOff ==
    [][(~auto_mining /\ ~auto_mining') =>
          \A t \in LoopThreads :
              /\ LoopRank(pc'[t]) <= LoopRank(pc[t])
              /\ (pc[t] = "l_while" /\ pc'[t] # "l_while") => pc'[t] = "off"]_vars

\* auto-mining was stopped while the loop was searching; the block of that
\* search is in the chain and the loop has ended
C21_Witness ==
    /\ ~auto_mining
    /\ last.op = "auto_mine"
    /\ last.result = "stopped"
    /\ pc["loop1"] = "off"
    /\ Len(chain) = 2
    /\ chain[2].miner_address = "M"
    /\ chain[2].transactions[1].recipient = "B"

\* C22: mining is rejected when the pool is empty.  A mine request made with
\* an empty pool is refused and appends nothing, and in every interleaving of
\* the request handler, the mining loop and receive_block, the block that a
\* mine request or the mining loop appends holds a transaction besides its
\* reward transaction.
C22_NoRewardOnlyBlock ==
    [][/\ (last' # last /\ last'.op = "mine" /\ last'.result = "rejected") =>
              (chain' = chain /\ Len(pending_transactions) = 0)
       /\ \A t \in Threads :
              (pc[t] = "m_append" /\ pc'[t] = "m_clear") =>
                  Len(chain'[Len(chain')].transactions) > 1]_vars

\* C23: when mine_block(d) returns, the stored hash of the block is
\* calculate_hash over its final index, timestamp, previous_hash, merkle_root
\* and nonce and begins with d zero symbols, for every d >= 0, d = 0 and a
\* block whose hash was unset before the call included; nothing but nonce and
\* hash is changed.
C23_MinedHashIsDigestAndMeetsTarget ==
    last.op = "mine_block" =>
        LET before == last.ret[1]
            d == last.ret[2]
            after == last.ret[3]
        IN /\ after.hash = calculate_hash(after)
           /\ after.hash =
                  <<"h", after.index, after.timestamp, after.previous_hash,
                    after.merkle_root, after.nonce>>
           /\ LeadingZeros(after.hash) >= d
           /\ before.hash = None => after.nonce >= 1
           /\ after = [before EXCEPT !.nonce = after.nonce, !.hash = after.hash]

\* a block whose hash was unset has been mined with difficulty 0, and took
\* one step of the search
C23_Witness ==
    /\ last.op = "mine_block"
    /\ last.ret[1].hash = None
    /\ last.ret[2] = 0
    /\ last.ret[3].nonce = 1
    /\ Len(last.ret[1].transactions) = 2

\* a block whose hash was unset has been mined with the greatest difficulty,
\* and the search took more than one step
C23_WitnessSearch ==
    /\ last.op = "mine_block"
    /\ last.ret[1].hash = None
    /\ last.ret[2] = MaxDifficulty
    /\ last.ret[3].nonce > 1

\* sha256 of the serialization of a transaction: a leaf of the Merkle tree
Leaf(tx) == <<"h", tx>>

\* sha256 of two hashes, left then right
Node(l, r) == <<"h", l, r>>

\* C24: the Merkle root is "0" for an empty list and otherwise the result of
\* pairing adjacent hashes left to right, the last hash of a level with an odd
\* count paired with itself, until one hash is left; and it depends on the
\* order: when two transactions of a block's list that differ change places,
\* the root changes.
C24_MerkleRootOrderSensitive ==
    /\ calculate_merkle_root(<<>>) = ZeroHash
    /\ last.op = "Block" =>
           LET t == last.ret[1].transactions
               root == last.ret[1].merkle_root
           IN /\ Len(t) = 0 => root = ZeroHash
              /\ Len(t) = 1 => root = Leaf(t[1])
              /\ Len(t) = 2 => root = Node(Leaf(t[1]), Leaf(t[2]))
              /\ Len(t) = 3 => root = Node(Node(Leaf(t[1]), Leaf(t[2])),
                                           Node(Leaf(t[3]), Leaf(t[3])))
              /\ Len(t) = 4 => root = Node(Node(Leaf(t[1]), Leaf(t[2])),
                                           Node(Leaf(t[3]), Leaf(t[4])))
    /\ last.op = "swap" =>
           LET b == last.ret[1]
               swapped == last.ret[2]
               i == last.ret[3]
               j == last.ret[4]
           IN b.transactions[i] # b.transactions[j] =>
                  swapped.merkle_root # b.merkle_root

\* in a block of three transactions the last two, which differ, have changed
\* places: the level has an odd count and its last hash is paired with itself
C24_Witness ==
    /\ last.op = "swap"
    /\ Len(last.ret[1].transactions) = 3
    /\ last.ret[3] = 2
    /\ last.ret[4] = 3
    /\ last.ret[1].transactions[2] # last.ret[1].transactions[3]
    /\ last.ret[1].transactions[1] = last.ret[1].transactions[3]

\* two transactions with the same id, fields and signature
SameTransaction(t, u) ==
    /\ t.id = u.id
    /\ t.sender = u.sender
    /\ t.recipient = u.recipient
    /\ t.amount = u.amount
    /\ t.fee = u.fee
    /\ t.timestamp = u.timestamp
    /\ t.signature = u.signature

\* two blocks with the same fields, the same transactions in the same order,
\* and the same recomputed hash
SameBlock(b, c) ==
    /\ b.index = c.index
    /\ b.timestamp = c.timestamp
    /\ b.previous_hash = c.previous_hash
    /\ b.miner_address = c.miner_address
    /\ b.nonce = c.nonce
    /\ b.merkle_root = c.merkle_root
    /\ b.hash = c.hash
    /\ Len(b.transactions) = Len(c.transactions)
    /\ \A k \in 1..Len(b.transactions) : SameTransaction(b.transactions[k], c.transactions[k])
    /\ calculate_hash(b) = calculate_hash(c)

\* C25: conversion loses nothing in either direction.  The chain of a node,
\* converted block by block with to_dict and back with dict_chain_to_objects,
\* has the same blocks: same index, timestamp, transactions, previous_hash,
\* miner_address, nonce, merkle_root, stored hash and recomputed hash; and a
\* chain that arrives as dictionaries, rebuilt and converted again, is the
\* list of dictionaries that arrived.
C25_ConversionLossless ==
    /\ chain_form = "object" =>
           LET back == dict_chain_to_objects(ToWire(chain))
           IN /\ Len(back) = Len(chain)
              /\ \A i \in 1..Len(chain) : SameBlock(back[i], chain[i])
    /\ \A c \in WireChains : ToWire(dict_chain_to_objects(c)) = c

\* a chain of three blocks: one mined here with a transaction of the pool
\* and its reward, one received from a peer, at a later time than the first
\* was built
C25_Witness ==
    /\ chain_form = "object"
    /\ Len(chain) = 3
    /\ Len(chain[2].transactions) = 2
    /\ chain[2].nonce > 0
    /\ chain[3].miner_address = "M"
    /\ clock > chain[2].timestamp

\* the peers a broadcast posted to
Posted(sent) == {sent[i].node : i \in 1..Len(sent)}

\* the posts of a broadcast that ended in a RequestException
Failed(sent) == {i \in 1..Len(sent) : sent[i].result \notin {"ok", "refused"}}

\* C26: a failed delivery stays with its peer.  When a mined block or an
\* accepted transaction is broadcast and the post to a peer fails, every peer
\* of the peer set is still posted to, once; the chain and the pool are what
\* mine_pending or add_transaction made them; and the caller has its success
\* result.
C26_BroadcastFailureIsolated ==
    [][/\ (last'.op = "mine" /\ last'.result = "ok") =>
              LET block == last'.ret[1]
                  sent == last'.ret[2]
              IN /\ Posted(sent) = nodes
                 /\ Len(sent) = Cardinality(nodes)
                 /\ chain' = Append(chain, block)
                 /\ pending_transactions' = <<>>
                 /\ nodes' = nodes
       /\ (last'.op = "add_transaction" /\ last'.result = "accepted") =>
              LET tx == last'.ret[1]
                  sent == last'.ret[2]
              IN /\ Posted(sent) = nodes
                 /\ Len(sent) = Cardinality(nodes)
                 /\ pending_transactions' = Append(pending_transactions, tx)
                 /\ chain' = chain
                 /\ nodes' = nodes]_vars

\* a block was mined and broadcast to three peers; the first post timed out,
\* and the two peers after it were posted to
C26_Witness ==
    /\ last.op = "mine"
    /\ last.result = "ok"
    /\ Len(last.ret[2]) = 3
    /\ last.ret[2][1].result = "timeout"
    /\ last.ret[2][2].result = "connection_error"
    /\ last.ret[2][3].result = "invalid_url"
    /\ Len(chain) = 2

\* a transaction was accepted and broadcast to three peers; the first post
\* failed, and a later one was delivered
C26_WitnessTransaction ==
    /\ last.op = "add_transaction"
    /\ last.result = "accepted"
    /\ Len(last.ret[2]) = 3
    /\ last.ret[2][1].result = "connection_error"
    /\ last.ret[2][3].result = "ok"

\* the endpoint (host:port) a registration names
Endpoint(address) == address.rest

\* C27: the peer set only grows.  A registration adds the endpoint it names
\* when the set does not hold it yet, and nothing else; no other operation
\* (add_transaction, mine, receive_block, replace_chain, resolve_conflicts,
\* with peers that fail or not) adds to the set or removes from it.
C27_PeerSetGrowsByRegistration ==
    [][/\ nodes \subseteq nodes'
       /\ nodes' # nodes => last'.op = "register_node"
       /\ \A a \in PeerAddresses :
              RegisterNode(a) => nodes' = nodes \cup {Endpoint(a)}]_vars

\* C28: no recoverable fault stops a background loop.  The mining loop ends
\* only at the test of its flag, with the flag off: an iteration whose save
\* failed goes on to the broadcast, an iteration whose posts failed goes on to
\* the test of the flag, and with the flag on the loop goes round again.  The
\* sync loop is always at the start of an iteration or installing a chain: an
\* iteration in which a peer was unreachable, answered a chain that fails
\* validation or answered a malformed body leaves it at the start of the next.
C28_LoopsSurviveFaults ==
    [][/\ \A t \in LoopThreads :
              /\ (pc[t] # "off" /\ pc'[t] = "off") => (pc[t] = "l_while" /\ ~auto_mining)
              /\ (pc[t] = "m_clear" /\ pc'[t] # "m_clear") => pc'[t] = "l_bcast"
              /\ (pc[t] = "l_bcast" /\ pc'[t] # "l_bcast") => pc'[t] = "l_while"
              /\ (pc[t] = "l_while" /\ auto_mining /\ pc'[t] # "l_while") =>
                     pc'[t] = "l_check"
       /\ pc'["sync"] \in {"idle", "s_install"}
       /\ (last' # last /\ last'.op = "resolve_conflicts"
              /\ last'.result \in {"error", "not_replaced"}) => pc'["sync"] = "idle"]_vars

\* the mining loop has mined a block, its post to the peer timed out, and with
\* the flag still on the loop has begun its next iteration
C28_Witness ==
    /\ last.op = "broadcast_block"
    /\ Len(last.ret[1]) = 1
    /\ last.ret[1][1].result = "timeout"
    /\ auto_mining
    /\ pc["loop1"] = "l_check"
    /\ Len(chain) = 2

\* the mining loop has mined a block, the save failed, and the loop is about
\* to broadcast the block
C28_WitnessSave ==
    /\ last.op = "mine"
    /\ last.result = "ok"
    /\ last.ret[2] = FALSE
    /\ pc["loop1"] = "l_bcast"

\* a peer answered the sync loop with a malformed body, and the sync loop is
\* at the start of its next iteration
C28_WitnessSync ==
    /\ last.op = "resolve_conflicts"
    /\ last.result = "error"
    /\ pc["sync"] = "idle"

\* C29: mine_pending clears the whole pool, not only what it mined.  When a
\* mine_pending call clears the pool, the pool is empty afterwards, and a
\* transaction that was accepted after the call took its copy of the pool is
\* then neither in the pool nor in the block the call mined.
C29_MineClearsWholePool ==
    [][\A t \in Threads :
          (pc[t] = "m_clear" /\ pc'[t] # "m_clear") =>
              /\ pending_transactions' = <<>>
              /\ \A i \in 1..Len(pending_transactions) :
                     (\A k \in 1..Len(loc[t].txs) :
                          loc[t].txs[k].id # pending_transactions[i].id) =>
                         \A k \in 1..Len(loc[t].block[1].transactions) :
                             loc[t].block[1].transactions[k].id # pending_transactions[i].id]_vars

\* on a node without peers a mine_pending call has finished; the transaction
\* with id 3, accepted between the call's copy of the pool and its clearing
\* of the pool, is in no block, and the pool is empty
C29_Witness ==
    /\ nodes = {}
    /\ last.op = "mine"
    /\ last.result = "ok"
    /\ pending_transactions = <<>>
    /\ Len(chain) = 2
    /\ next_id = 4
    /\ pc["handler"] = "idle"
    /\ pc["loop1"] = "l_bcast"
    /\ Len(chain[2].transactions) = 2
    /\ \A k \in 1..2 : chain[2].transactions[k].id # 3

\* the ids of the transactions of a list
IdsOf(txs) == {txs[i].id : i \in 1..Len(txs)}

\* C30: auto-mining makes progress.  When the mining loop, scheduled fairly,
\* finds a transaction in the pool at its check, then, unless auto-mining is
\* switched off, a block that holds the transaction is eventually in the
\* chain and has been broadcast by the loop.
C30_AutoMiningProgress ==
    \A i \in 1..MaxIds :
        (/\ auto_mining
         /\ pc["loop1"] = "l_check"
         /\ i \in IdsOf(pending_transactions)
         /\ next_id < MaxDrawn
         /\ Len(chain) < MaxRacing)
        ~> (\/ ~auto_mining
            \/ /\ i \in IdsOf(Committed(chain))
               /\ last.op = "broadcast_block")


\* C31 (as claimed): in every reachable state every block of the chain, block
\* 0 included, has a stored hash equal to the hash recomputed from its index,
\* timestamp, previous_hash, merkle_root and nonce.
C31_EveryStoredHashIsDigest ==
    \A i \in 1..Len(chain) : chain[i].hash = calculate_hash(chain[i])

\* C31 (amended): in every reachable state every block at index 1 or more has
\* a stored hash equal to the hash recomputed from its fields, whichever
\* operation put it there (mine_pending, receive_block, replace_chain,
\* resolve_conflicts); the stored hash of block 0 of an adopted chain is taken
\* as given.
C31_LaterStoredHashIsDigest ==
    \A i \in 2..Len(chain) : chain[i].hash = calculate_hash(chain[i])

\* C31 witness: a chain offered by a peer, on a genesis block whose stored
\* hash is not its digest, was adopted and its later blocks verify.
C31_Witness ==
    /\ last.op \in {"replace_chain", "resolve_conflicts"}
    /\ last.result = "replaced"
    /\ Len(chain) >= 2
    /\ chain[1].hash # calculate_hash(chain[1])
    /\ chain[2].hash = calculate_hash(chain[2])


\* C32 (as claimed): in every reachable state every block of the chain has a
\* merkle_root equal to the Merkle reduction of its own transaction list,
\* blocks taken from peers included.
C32_EveryMerkleRootMatches ==
    \A i \in 1..Len(chain) :
        chain[i].merkle_root = calculate_merkle_root(chain[i].transactions)

\* C32 (amended): the blocks the node builds itself have a merkle_root equal
\* to the Merkle reduction of their transaction list: the genesis block it
\* starts with, and every block mine_pending appends.
C32_OwnMerkleRootMatches ==
    /\ chain[1].merkle_root = calculate_merkle_root(chain[1].transactions)
    /\ [][(last'.op = "mine" /\ last'.result = "ok") =>
              LET b == last'.ret[1]
              IN /\ chain' = Append(chain, b)
                 /\ b.merkle_root = calculate_merkle_root(b.transactions)]_vars

\* C32 witness: mine_pending has appended a block of a transfer and the
\* reward to a chain that holds a peer's block whose merkle_root is not the
\* reduction of its transactions.
C32_Witness ==
    /\ last.op = "mine"
    /\ last.result = "ok"
    /\ Len(last.ret[1].transactions) >= 2
    /\ chain[Len(chain)] = last.ret[1]
    /\ \E i \in 1..Len(chain) :
           chain[i].merkle_root # calculate_merkle_root(chain[i].transactions)


\* the senders other than genesis
Spenders == Address \ {Genesis}

\* no sender other than genesis has two transactions in the pool
OnePendingPerSender(pool) ==
    \A i, j \in 1..Len(pool) :
        (i # j /\ pool[i].sender = pool[j].sender) => pool[i].sender = Genesis

NoNegativeBalance(ch) ==
    \A a \in Spenders : get_balance(ch, mining_reward, a) >= 0

\* C33 (as claimed): when transactions enter only through add_transaction and
\* blocks only through mine_pending, all run one at a time, the balance of
\* every address other than genesis is at least 0 in every reachable state.
C33_BalancesNeverNegative == NoNegativeBalance(chain)

\* C33 (amended): with the same operations run one at a time, a step taken
\* from a state in which no balance is negative and no sender other than
\* genesis has two transactions pending together leaves no balance negative;
\* the node starts with no negative balance.
C33_BalancesStayNonNegative ==
    /\ NoNegativeBalance(chain)
    /\ [][(NoNegativeBalance(chain) /\ OnePendingPerSender(pending_transactions))
              => NoNegativeBalance(chain')]_vars

\* C33 witness: a block was mined that spends the whole balance of a sender
\* other than genesis, whose balance is 0 afterwards.
C33_Witness ==
    /\ last.op = "mine"
    /\ last.result = "ok"
    /\ \E i \in 1..Len(last.ret[1].transactions) :
           LET t == last.ret[1].transactions[i]
           IN /\ t.sender \in Spenders
              /\ get_balance(chain, mining_reward, t.sender) = 0
    /\ NoNegativeBalance(chain)


\* C34: in every interleaving of the sync loop with mining and block receipt
\* the chain never gets shorter, and the step of resolve_conflicts that
\* installs a peer's chain makes the chain strictly longer than it is at that
\* moment.
C34_ChainLengthNeverDecreases ==
    [][/\ Len(chain') >= Len(chain)
       /\ (pc["sync"] = "s_install" /\ pc'["sync"] = "idle") => Len(chain') > Len(chain)]_vars


\* the mining loops that are alive
Alive == {t \in Loops : pc[t] # "off"}

\* C35: at most one mining loop is active on a node at any time, through any
\* sequence of auto-mining toggles: a loop started by an earlier toggle-on is
\* not alive next to a loop started by a later toggle-on.
C35_AtMostOneMiningLoop == Cardinality(Alive) <= 1


\* C36: both chain-replacement paths store the same thing: when replace_chain
\* accepts a candidate given in wire form, the stored chain consists of the
\* Block entities dict_chain_to_objects rebuilds from it, as resolve_conflicts
\* stores them, and the mine_pending and receive_block that follow do not
\* fail on it.
C36_ReplacePathsStoreBlocks ==
    [][/\ (last'.op \in {"replace_chain", "resolve_conflicts"} /\ last'.result = "replaced")
            => (chain_form' = "object" /\ chain' = dict_chain_to_objects(ToWire(chain')))
       /\ last'.op \in {"mine", "receive_block"} => last'.result # "error"]_vars

\* C37: every block at index 1 or more of the chain has a hash that begins
\* with as many zero symbols as the node's difficulty, whichever path
\* appended it (mine_pending, receive_block, replace_chain, resolve_conflicts).
C37_EveryBlockHasProofOfWork ==
    \A i \in 2..Len(chain) : StartsWithTarget(chain[i].hash, difficulty)


\* the chains honest peers can have built on the node's chain: one block
\* mined on its tip, with the reward alone or with the oldest pending
\* transaction, or two blocks mined on it
HonestChains ==
    {Append(chain, block_from_dict(PeerBlock(Len(chain), txs, get_latest_block.hash, "M",
                                             clock, difficulty))) :
        txs \in WireTxLists(Len(chain), "M")}
    \cup {dict_chain_to_objects(Extend(ToWire(chain), n, "M", mining_reward, clock,
                                       difficulty)) : n \in 1..2}

\* position by position the same block hashes
SameHashes(c, d) ==
    /\ Len(c) = Len(d)
    /\ \A i \in 1..Len(c) : c[i].hash = d[i].hash

SameBalances(c, d) ==
    \A a \in Address : get_balance(c, mining_reward, a) = get_balance(d, mining_reward, a)

\* C38: block hashes commit to balances: when the chain the node holds after
\* a step passes validation and has, position by position, the hashes of a
\* chain honest peers built, which passes validation too, the two chains give
\* every address the same balance; so no candidate that differs from the
\* honest chain in a miner_address or a transaction list only is taken by
\* receive_block, replace_chain or resolve_conflicts.
C38_HashesCommitToBalances ==
    [][\A h \in HonestChains :
          (/\ validate_imported_chain(h)
           /\ validate_imported_chain(chain')
           /\ SameHashes(h, chain'))
          => SameBalances(h, chain')]_vars
====
